---- MODULE Spec2Model ----
(***************************************************************************)
(* Task access control of the express-sql-orm-comparison repository.       *)
(* The TaskService of each ORM variant (drizzle, typeorm, objection) is    *)
(* modelled over its TaskRepository and the tasks/users tables.  A request *)
(* is one atomic step (the handlers are checked here one at a time); its   *)
(* inputs and its outcome are recorded in `last` until the response is     *)
(* sent.  Spec runs the task routes and DELETE /users/:id; AuthSpec runs   *)
(* the TokenService, the AuthService and the two middlewares over a clock. *)
(* UserSpec runs the user routes and the registration, RaceSpec the task   *)
(* routes, both with a handler's checks and its repository write as two    *)
(* steps that other requests may come between.                             *)
(***************************************************************************)
EXTENDS Integers, FiniteSets, Sequences, TLC

(* ----------------------------- bounds ---------------------------------- *)
\* number of rows the tasks table's serial id may hand out
MaxTasks == 2
\* number of requests handled in one behaviour
MaxOps == 3
\* last reading of the clock, in days
MaxTime == 8
\* number of requests that may wait for their repository write at once
MaxInflight == 2

(* ------------------------ enums and seed data -------------------------- *)
Variants == {"drizzle", "typeorm", "objection"}
Roles == {"ADMIN", "MANAGER", "USER"}
\* roles of the seeded users, in insertion order (ids 1, 2, 3)
SeedRoles == <<"ADMIN", "MANAGER", "USER">>
\* emails of the seeded users
SeedEmails == <<"admin@example.com", "manager@example.com", "user@example.com">>
TaskStatusDefault == "PENDING"
TaskPriorityDefault == "MEDIUM"

\* absent row / no task returned
NoTask == [id |-> 0]
\* a payload or patch with no field set ({} in the source)
EmptyPatch == [f \in {} |-> ""]
\* null returned by a user lookup
NoUser == [role |-> "none"]

(* ------------------------------ inputs --------------------------------- *)
\* ids a request may name as assignee: 0 (falsy), the users, and one id
\* past the last user (no such row)
GhostUser == Len(SeedRoles) + 1
AssigneeIds == 0..GhostUser
\* request bodies of POST /tasks (createTaskSchema lets unknown keys through)
CreatePayloads ==
    {[title |-> "T1"],
     [title |-> "T1", createdBy |-> 3]}
    \cup {[title |-> "T1", assignedToId |-> a] : a \in AssigneeIds}
\* request bodies of PUT /tasks/:id
UpdatePayloads ==
    {EmptyPatch,
     [status |-> "COMPLETED"],
     [status |-> "COMPLETED", title |-> "T2", priority |-> "URGENT"],
     [status |-> "IN_PROGRESS", completedAt |-> "D1", description |-> "D2",
      assignedToId |-> 3],
     [title |-> "T2", assignedToId |-> GhostUser],
     [title |-> "T2", createdBy |-> 3]}
StatusInputs == {"IN_PROGRESS", "COMPLETED"}
PriorityInputs == {"LOW", "URGENT"}
DueDateInputs == {"2030-01-01"}

VARIABLES
    variant,   \* which app (ORM variant) the process runs
    users,     \* users table: id -> row
    tasks,     \* tasks table: id -> row, NoTask where no row
    nextId,    \* next value of the tasks id sequence
    ops,       \* requests handled so far
    pc,        \* "idle": waiting for a request; "done": `last` holds a response
    last,      \* the request just handled and its outcome
    now,       \* the clock jwt reads, in days
    issued,    \* the tokens handed to clients so far
    inflight   \* requests past their checks, awaiting their repository write

vars == <<variant, users, tasks, nextId, ops, pc, last, now, issued, inflight>>

TaskIds == 1..MaxTasks

(* --------------------------- repositories ------------------------------ *)
\* TaskRepository.findById
TaskFindById(T, id) == IF id \in DOMAIN T THEN T[id] ELSE NoTask

\* UserRepository.findById: TRUE iff a row is returned
UserFindById(v, U, id) ==
    /\ id \in DOMAIN U
    /\ (v = "typeorm" => U[id].isActive)

\* FkOk with no constraint on the two columns
FkOk_unchecked(U, row) == TRUE

\* foreign keys tasks.assigned_to_id / tasks.created_by -> users.id
FkOk(U, row) ==
    /\ ("assignedToId" \in DOMAIN row => row.assignedToId \in DOMAIN U)
    /\ ("createdBy" \in DOMAIN row => row.createdBy \in DOMAIN U)

\* the properties an update may write, per variant
TaskColumns(v) ==
    IF v = "typeorm"
    THEN {"title", "description", "status", "priority", "assignedToId",
          "completedAt"}
    ELSE {"title", "description", "status", "priority", "assignedToId",
          "createdBy", "completedAt"}

Restrict(p, S) == [f \in (DOMAIN p) \cap S |-> p[f]]
Merge(t, p) == [f \in DOMAIN t |-> IF f \in DOMAIN p THEN p[f] ELSE t[f]]
Field(p, f, dflt) == IF f \in DOMAIN p THEN p[f] ELSE dflt

\* TaskRepository.create: the row inserted for taskData (before the id)
NewRow(v, d, id) ==
    [id |-> id,
     title |-> d.title,
     description |-> Field(d, "description", IF v = "objection" THEN "null" ELSE ""),
     status |-> Field(d, "status", TaskStatusDefault),
     priority |-> Field(d, "priority", TaskPriorityDefault),
     assignedToId |-> d.assignedToId,
     createdBy |-> d.createdBy,
     completedAt |-> IF v = "typeorm" THEN "null" ELSE Field(d, "completedAt", "null")]

\* TaskRepository.update: the possible outcomes [error, tasks] of
\* update(id, patch) on table T
RepoUpdate(v, U, T, id, patch) ==
    LET w == Restrict(patch, TaskColumns(v))
        unknown == (DOMAIN patch) \ TaskColumns(v)
        ok == [error |-> "none", tasks |-> [T EXCEPT ![id] = Merge(T[id], w)]]
        same == [error |-> "none", tasks |-> T]
        fail == [error |-> "Error", tasks |-> T]
    IN  IF TaskFindById(T, id) = NoTask THEN {fail}
        ELSE IF v = "typeorm"
             THEN (IF FkOk(U, w) THEN {ok} ELSE {fail})
        ELSE IF v = "drizzle"
             THEN (IF w = EmptyPatch \/ ~FkOk(U, w) THEN {fail} ELSE {ok})
        ELSE \* objection: patchAndFetchById
             IF unknown # {} \/ ~FkOk(U, w) THEN {fail}
             ELSE IF w = EmptyPatch THEN {fail, same}
             ELSE {ok}

(* ----------------------------- responses ------------------------------- *)
Resp(op, uid, role, tid) ==
    [op |-> op, userId |-> uid, userRole |-> role, taskId |-> tid,
     payload |-> EmptyPatch, assigneeId |-> 0, value |-> "",
     before |-> NoTask, error |-> "none", errEntity |-> "", errId |-> 0,
     data |-> NoTask, list |-> {}, patch |-> EmptyPatch, wrote |-> FALSE,
     errMsg |-> "", targetId |-> 0, beforeUser |-> NoUser,
     token |-> [form |-> "none"], claims |-> [userId |-> 0],
     tokens |-> [token |-> [form |-> "none"]], roles |-> {}, flag |-> FALSE]

NotFound(r, entity, id) ==
    [r EXCEPT !.error = "NotFoundException", !.errEntity = entity, !.errId = id]
Unauthorized(r) == [r EXCEPT !.error = "UnauthorizedException"]

Init ==
    /\ variant \in Variants
    /\ users = [i \in 1..Len(SeedRoles) |->
                    [role |-> SeedRoles[i], isActive |-> TRUE, email |-> SeedEmails[i]]]
    /\ tasks = [i \in TaskIds |-> NoTask]
    /\ nextId = 1
    /\ ops = 0
    /\ pc = "idle"
    /\ last = Resp("none", 0, "", 0)
    /\ now = 0
    /\ issued = {}
    /\ inflight = {}

\* a request is accepted: the actor (userId, userRole) comes from the token
Accept == pc = "idle" /\ ops < MaxOps
\* the handler ends with response r
Finish(r) == /\ last' = r
             /\ pc' = "done"
             /\ ops' = ops + 1
             /\ UNCHANGED <<variant, now, inflight>>
\* ... of a handler that writes neither the users table nor a token
Done(r) == Finish(r) /\ UNCHANGED <<users, issued>>

\* the response is sent
Respond ==
    /\ pc = "done"
    /\ pc' = "idle"
    /\ last' = Resp("none", 0, "", 0)
    /\ UNCHANGED <<variant, users, tasks, nextId, ops, now, issued, inflight>>

(* ------------------------------ exceptions ----------------------------- *)
\* statusCode of each exception class
StatusCode(kind) ==
    IF kind = "NotFoundException" THEN 404
    ELSE IF kind = "ForbiddenException" THEN 403
    ELSE IF kind = "UnauthorizedException" THEN 401
    ELSE 500

(* ----------------------------- TokenService ---------------------------- *)
\* config.jwt.secret, and a key the server never had
Secret == "jwt-secret"
OtherSecret == "other-secret"
\* expiresIn of the access and of the refresh token, in days
AccessTtl == 1
RefreshTtl == 7

\* the row of user id as the repositories return it
UserRow(U, id) ==
    [id |-> id, email |-> U[id].email, role |-> U[id].role, isActive |-> U[id].isActive]

\* jwt.sign(payload, secret, {expiresIn}) at time t
Sign(payload, secret, ttl, t) ==
    [form |-> "jwt", userId |-> payload.userId, email |-> payload.email,
     role |-> payload.role, iat |-> t, exp |-> t + ttl, sig |-> secret]

\* TokenService.generateToken / generateRefreshToken at time t
generateToken(user, t) ==
    Sign([userId |-> user.id, email |-> user.email, role |-> user.role],
         Secret, AccessTtl, t)
\* generateRefreshToken that signs the default role
generateRefreshToken_defaultRole(user, t) ==
    Sign([userId |-> user.id, email |-> user.email, role |-> "USER"],
         Secret, RefreshTtl, t)

generateRefreshToken(user, t) ==
    Sign([userId |-> user.id, email |-> user.email, role |-> user.role],
         Secret, RefreshTtl, t)

\* strings that are no JWT at all
EmptyToken == [form |-> "empty"]
MalformedToken == [form |-> "malformed"]
NoPayload == [userId |-> 0]

\* jwt.verify(token, secret) at time t: TRUE iff it returns
JwtValid(tok, secret, t) == tok.form = "jwt" /\ tok.sig = secret /\ t < tok.exp

\* verifyToken that lets the jwt error through for an expired token
verifyToken_leaky(tok, t) ==
    IF JwtValid(tok, Secret, t)
    THEN [error |-> "none", msg |-> "",
          payload |-> [userId |-> tok.userId, email |-> tok.email,
                       role |-> tok.role, iat |-> tok.iat, exp |-> tok.exp]]
    ELSE IF tok.form = "jwt" /\ tok.sig = Secret
    THEN [error |-> "TokenExpiredError", msg |-> "jwt expired", payload |-> NoPayload]
    ELSE [error |-> "UnauthorizedException", msg |-> "Invalid or expired token",
          payload |-> NoPayload]

\* TokenService.verifyToken at time t: the decoded payload, or the exception
verifyToken(tok, t) ==
    IF JwtValid(tok, Secret, t)
    THEN [error |-> "none", msg |-> "",
          payload |-> [userId |-> tok.userId, email |-> tok.email,
                       role |-> tok.role, iat |-> tok.iat, exp |-> tok.exp]]
    ELSE [error |-> "UnauthorizedException", msg |-> "Invalid or expired token",
          payload |-> NoPayload]

(* ----------------------------- middlewares ----------------------------- *)
\* req.role left undefined
NoRole == ""
\* the request as a middleware leaves it: error "none" iff next() was called
\* with no argument
Req(error, msg, uid, role) ==
    [error |-> error, msg |-> msg, userId |-> uid, role |-> role]

\* createAuthMiddleware(findUserById) with the finder's check left out
createAuthMiddleware_noFinderCheck(useFinder, v, U, tok, t) ==
    LET dec == verifyToken(tok, t)
    IN  IF tok = EmptyToken
        THEN Req("UnauthorizedException", "Access token is required", 0, NoRole)
        ELSE IF dec.error # "none" THEN Req(dec.error, dec.msg, 0, NoRole)
        ELSE Req("none", "", dec.payload.userId, dec.payload.role)

\* createAuthMiddleware(findUserById) run on a request that carries tok;
\* useFinder is FALSE for the legacy `authenticate` built with no finder
createAuthMiddleware(useFinder, v, U, tok, t) ==
    LET dec == verifyToken(tok, t)
    IN  IF tok = EmptyToken
        THEN Req("UnauthorizedException", "Access token is required", 0, NoRole)
        ELSE IF dec.error # "none" THEN Req(dec.error, dec.msg, 0, NoRole)
        ELSE IF useFinder /\ ~UserFindById(v, U, dec.payload.userId)
        THEN Req("UnauthorizedException", "User no longer exists",
                 dec.payload.userId, dec.payload.role)
        ELSE IF useFinder /\ ~U[dec.payload.userId].isActive
        THEN Req("UnauthorizedException", "User account is inactive",
                 dec.payload.userId, dec.payload.role)
        ELSE Req("none", "", dec.payload.userId, dec.payload.role)

\* authorize that lets every request with a role through
authorize_anyRole(roles, req) ==
    IF req.role = NoRole
    THEN [req EXCEPT !.error = "UnauthorizedException", !.msg = "Access denied"]
    ELSE req

\* authorize(...roles) run on a request the authentication let through
authorize(roles, req) ==
    IF req.role = NoRole
    THEN [req EXCEPT !.error = "UnauthorizedException", !.msg = "Access denied"]
    ELSE IF req.role \notin roles
    THEN [req EXCEPT !.error = "UnauthorizedException",
                     !.msg = "Insufficient permissions"]
    ELSE req

\* whether each router is mounted behind a middleware built with a finder
TaskRoutesUseFinder == FALSE
UserRoutesUseFinder == TRUE

(* ------------------------------ TaskService ---------------------------- *)
\* AssignedOrSelf ignoring the payload's assignedToId
AssignedOrSelf_alwaysSelf(p, uid) == uid

\* taskData.assignedToId || userId
AssignedOrSelf(p, uid) ==
    IF "assignedToId" \in DOMAIN p /\ p.assignedToId # 0
    THEN p.assignedToId ELSE uid

\* { ...taskData, createdBy: userId, assignedToId: taskData.assignedToId || userId }
CreateData(p, uid) ==
    [f \in (DOMAIN p) \cup {"createdBy", "assignedToId"} |->
        IF f = "createdBy" THEN uid
        ELSE IF f = "assignedToId" THEN AssignedOrSelf(p, uid)
        ELSE p[f]]

\* role gate of createTask
CanCreate(role) == role = "ADMIN" \/ role = "MANAGER"

createTask(uid, role, p) ==
    /\ Accept
    /\ LET r == [Resp("createTask", uid, role, 0) EXCEPT !.payload = p]
           d == CreateData(p, uid)
           row == NewRow(variant, d, nextId)
       IN  IF ~CanCreate(role)
           THEN Done(Unauthorized(r)) /\ UNCHANGED <<tasks, nextId>>
           ELSE /\ nextId <= MaxTasks
                /\ IF FkOk(users, d)
                   THEN /\ tasks' = [tasks EXCEPT ![nextId] = row]
                        /\ nextId' = nextId + 1
                        /\ Done([r EXCEPT !.data = row, !.patch = d, !.wrote = TRUE])
                   ELSE /\ UNCHANGED <<tasks, nextId>>
                        /\ Done([r EXCEPT !.error = "Error", !.patch = d, !.wrote = TRUE])

\* CanRead with the MANAGER branch missing the assignee test
CanRead_creatorOnly(t, uid, role) ==
    \/ role = "ADMIN"
    \/ role = "MANAGER" /\ t.createdBy = uid
    \/ role = "USER" /\ t.assignedToId = uid

\* the read rule shared by getTaskById's three branches
CanRead(t, uid, role) ==
    \/ role = "ADMIN"
    \/ role = "MANAGER" /\ (t.createdBy = uid \/ t.assignedToId = uid)
    \/ role = "USER" /\ t.assignedToId = uid

getTaskById(tid, uid, role) ==
    /\ Accept
    /\ UNCHANGED <<tasks, nextId>>
    /\ LET t == TaskFindById(tasks, tid)
           r == [Resp("getTaskById", uid, role, tid) EXCEPT !.before = t]
       IN  IF t = NoTask THEN Done(NotFound(r, "Task", tid))
           ELSE IF CanRead(t, uid, role) THEN Done([r EXCEPT !.data = t])
           ELSE Done(Unauthorized(r))

\* TaskRepository.findAll / findByUserId / findByAssignedUserId
FindAll(T) == {T[i] : i \in {j \in DOMAIN T : T[j] # NoTask}}
\* FindByUserId with the createdBy disjunct of the where clause missing
FindByUserId_assignedOnly(T, uid) ==
    {T[i] : i \in {j \in DOMAIN T : T[j] # NoTask /\ T[j].assignedToId = uid}}

FindByUserId(T, uid) ==
    {t \in FindAll(T) : t.assignedToId = uid \/ t.createdBy = uid}
FindByAssignedUserId(T, uid) == {t \in FindAll(T) : t.assignedToId = uid}

getTasksByUser(uid, role) ==
    /\ Accept
    /\ UNCHANGED <<tasks, nextId>>
    /\ LET r == Resp("getTasksByUser", uid, role, 0)
       IN  IF role = "ADMIN" THEN Done([r EXCEPT !.list = FindAll(tasks)])
           ELSE IF role = "MANAGER"
                THEN Done([r EXCEPT !.list = FindByUserId(tasks, uid)])
           ELSE IF role = "USER"
                THEN Done([r EXCEPT !.list = FindByAssignedUserId(tasks, uid)])
           ELSE Done(Unauthorized(r))

\* the outcome of handing `patch` to TaskRepository.update, as a response
Written(r, patch, out) ==
    [r EXCEPT !.patch = patch, !.wrote = TRUE, !.error = out.error,
              !.data = IF out.error = "none" THEN out.tasks[r.taskId] ELSE NoTask]

\* repository.update(taskId, patch) followed by the response
Write(r, patch) ==
    \E out \in RepoUpdate(variant, users, tasks, r.taskId, patch) :
        /\ tasks' = out.tasks
        /\ Done(Written(r, patch, out))

Deny(r) == Done(Unauthorized(r)) /\ tasks' = tasks

\* updateTask: the patch the service hands to the repository for an actor,
\* or "deny" (UnauthorizedException)
UpdateDecision(v, t, p, uid, role) ==
    IF role = "ADMIN" THEN [allow |-> TRUE, patch |-> p]
    ELSE IF v = "objection"
    THEN (IF \/ role = "MANAGER" /\ (t.createdBy = uid \/ t.assignedToId = uid)
             \/ role = "USER" /\ t.assignedToId = uid
          THEN [allow |-> TRUE, patch |-> p]
          ELSE [allow |-> FALSE, patch |-> EmptyPatch])
    ELSE IF role = "MANAGER" /\ t.createdBy = uid
         THEN [allow |-> TRUE, patch |-> p]
    ELSE IF role = "USER" /\ t.assignedToId = uid
         THEN [allow |-> TRUE, patch |-> Restrict(p, {"status", "completedAt"})]
    ELSE [allow |-> FALSE, patch |-> EmptyPatch]

updateTask(tid, p, uid, role) ==
    /\ Accept
    /\ UNCHANGED nextId
    /\ LET t == TaskFindById(tasks, tid)
           r == [Resp("updateTask", uid, role, tid) EXCEPT !.before = t, !.payload = p]
           dec == UpdateDecision(variant, t, p, uid, role)
       IN  IF t = NoTask THEN Done(NotFound(r, "Task", tid)) /\ tasks' = tasks
           ELSE IF dec.allow THEN Write(r, dec.patch)
           ELSE Deny(r)

\* CanDelete letting a MANAGER through
CanDelete_manager(role) == role = "ADMIN" \/ role = "MANAGER"

\* role gate of deleteTask
CanDelete(role) == role = "ADMIN"

deleteTask(tid, uid, role) ==
    /\ Accept
    /\ UNCHANGED nextId
    /\ LET t == TaskFindById(tasks, tid)
           r == [Resp("deleteTask", uid, role, tid) EXCEPT !.before = t]
       IN  IF t = NoTask THEN Done(NotFound(r, "Task", tid)) /\ tasks' = tasks
           ELSE IF ~CanDelete(role) THEN Deny(r)
           ELSE /\ tasks' = [tasks EXCEPT ![tid] = NoTask]
                /\ Done([r EXCEPT !.wrote = TRUE])

\* role gate of assignTask
CanAssign(role) == role = "ADMIN" \/ role = "MANAGER"

\* AssignDecision with the assignee lookup moved before the role gate
AssignDecision_lookupFirst(v, U, t, assigneeId, role) ==
    IF t = NoTask THEN "task_not_found"
    ELSE IF ~UserFindById(v, U, assigneeId) THEN "user_not_found"
    ELSE IF ~CanAssign(role) THEN "denied"
    ELSE "write"

\* the checks of assignTask, in the order the code runs them
AssignDecision(v, U, t, assigneeId, role) ==
    IF t = NoTask THEN "task_not_found"
    ELSE IF ~CanAssign(role) THEN "denied"
    ELSE IF ~UserFindById(v, U, assigneeId) THEN "user_not_found"
    ELSE "write"

assignTask(tid, assigneeId, uid, role) ==
    /\ Accept
    /\ UNCHANGED nextId
    /\ LET t == TaskFindById(tasks, tid)
           r == [Resp("assignTask", uid, role, tid) EXCEPT
                    !.before = t, !.assigneeId = assigneeId]
           dec == AssignDecision(variant, users, t, assigneeId, role)
       IN  IF dec = "task_not_found"
           THEN Done(NotFound(r, "Task", tid)) /\ tasks' = tasks
           ELSE IF dec = "denied" THEN Deny(r)
           ELSE IF dec = "user_not_found"
                THEN Done(NotFound(r, "User", assigneeId)) /\ tasks' = tasks
           ELSE Write(r, [assignedToId |-> assigneeId])

\* updateTaskStatus: TRUE iff the status write is permitted
CanUpdateStatus(v, t, uid, role) ==
    IF v = "typeorm"
    THEN \/ role = "ADMIN"
         \/ role = "MANAGER"
         \/ role = "USER" /\ t.assignedToId = uid
    ELSE /\ ~(role = "USER" /\ t.assignedToId # uid)
         /\ ~(role = "MANAGER" /\ t.createdBy # uid /\ t.assignedToId # uid)

updateTaskStatus(tid, status, uid, role) ==
    /\ Accept
    /\ UNCHANGED nextId
    /\ LET t == TaskFindById(tasks, tid)
           r == [Resp("updateTaskStatus", uid, role, tid) EXCEPT
                    !.before = t, !.value = status]
       IN  IF t = NoTask THEN Done(NotFound(r, "Task", tid)) /\ tasks' = tasks
           ELSE IF ~CanUpdateStatus(variant, t, uid, role) THEN Deny(r)
           ELSE Write(r, [status |-> status])

\* the order of the two checks of updateTaskDueDate / updateTaskPriority:
\* TRUE iff the role gate runs before the task lookup
RoleGateFirst(v) == v # "typeorm"

\* CanSetPriorityOrDueDate with no gate at all
CanSetPriorityOrDueDate_anyone(role) == role \in {"ADMIN", "MANAGER", "USER"}

\* role gate of updateTaskDueDate / updateTaskPriority
CanSetPriorityOrDueDate(role) == role = "ADMIN" \/ role = "MANAGER"

\* updateTaskDueDate and updateTaskPriority up to the repository call
GatedWrite(r, t, role, patch) ==
    LET denied == ~CanSetPriorityOrDueDate(role)
    IN  IF RoleGateFirst(variant)
        THEN (IF denied THEN Deny(r)
              ELSE IF t = NoTask
                   THEN Done(NotFound(r, "Task", r.taskId)) /\ tasks' = tasks
              ELSE Write(r, patch))
        ELSE (IF t = NoTask
              THEN Done(NotFound(r, "Task", r.taskId)) /\ tasks' = tasks
              ELSE IF denied THEN Deny(r)
              ELSE Write(r, patch))

updateTaskDueDate(tid, dueDate, uid, role) ==
    /\ Accept
    /\ UNCHANGED nextId
    /\ LET t == TaskFindById(tasks, tid)
           r == [Resp("updateTaskDueDate", uid, role, tid) EXCEPT
                    !.before = t, !.value = dueDate]
       IN  GatedWrite(r, t, role, [dueDate |-> dueDate])

updateTaskPriority(tid, priority, uid, role) ==
    /\ Accept
    /\ UNCHANGED nextId
    /\ LET t == TaskFindById(tasks, tid)
           r == [Resp("updateTaskPriority", uid, role, tid) EXCEPT
                    !.before = t, !.value = priority]
       IN  GatedWrite(r, t, role, [priority |-> priority])

\* the methods that look a task up and then call TaskRepository.update
TaskWriteOps == {"updateTask", "assignTask", "updateTaskStatus",
                 "updateTaskPriority", "updateTaskDueDate"}

\* what a method of TaskWriteOps decides, on the row t its findById
\* returned, before it calls the repository
CheckOutcome(op, v, U, t, arg, uid, role) ==
    IF op = "updateTask"
    THEN (IF t = NoTask THEN "task_not_found"
          ELSE IF UpdateDecision(v, t, arg, uid, role).allow THEN "write"
          ELSE "denied")
    ELSE IF op = "assignTask" THEN AssignDecision(v, U, t, arg, role)
    ELSE IF op = "updateTaskStatus"
    THEN (IF t = NoTask THEN "task_not_found"
          ELSE IF CanUpdateStatus(v, t, uid, role) THEN "write"
          ELSE "denied")
    ELSE IF RoleGateFirst(v) /\ ~CanSetPriorityOrDueDate(role) THEN "denied"
    ELSE IF t = NoTask THEN "task_not_found"
    ELSE IF ~CanSetPriorityOrDueDate(role) THEN "denied"
    ELSE "write"

\* the patch the method hands to TaskRepository.update
CheckPatch(op, v, t, arg, uid, role) ==
    IF op = "updateTask" THEN UpdateDecision(v, t, arg, uid, role).patch
    ELSE IF op = "assignTask" THEN [assignedToId |-> arg]
    ELSE IF op = "updateTaskStatus" THEN [status |-> arg]
    ELSE IF op = "updateTaskPriority" THEN [priority |-> arg]
    ELSE [dueDate |-> arg]

\* the request of a method of TaskWriteOps, with the row its findById returned
WriteRequest(op, tid, arg, uid, role, t) ==
    LET r == [Resp(op, uid, role, tid) EXCEPT !.before = t]
    IN  IF op = "updateTask" THEN [r EXCEPT !.payload = arg]
        ELSE IF op = "assignTask" THEN [r EXCEPT !.assigneeId = arg]
        ELSE [r EXCEPT !.value = arg]

\* a method of TaskWriteOps up to the await of its repository.update: the
\* lookups and the permission checks
taskChecks(op, tid, arg, uid, role) ==
    /\ Accept
    /\ Cardinality(inflight) < MaxInflight
    /\ UNCHANGED <<tasks, nextId>>
    /\ LET t == TaskFindById(tasks, tid)
           r == WriteRequest(op, tid, arg, uid, role, t)
           out == CheckOutcome(op, variant, users, t, arg, uid, role)
       IN  IF out = "write"
           THEN /\ inflight' = inflight \cup
                       {[n |-> ops, r |-> r,
                         patch |-> CheckPatch(op, variant, t, arg, uid, role)]}
                /\ ops' = ops + 1
                /\ UNCHANGED <<variant, now, pc, last, users, issued>>
           ELSE IF out = "task_not_found" THEN Done(NotFound(r, "Task", tid))
           ELSE IF out = "user_not_found" THEN Done(NotFound(r, "User", arg))
           ELSE Done(Unauthorized(r))

\* the method from its repository.update on: the write and the response
taskWrite(req) ==
    /\ pc = "idle"
    /\ req \in inflight
    /\ req.r.op \in TaskWriteOps
    /\ inflight' = inflight \ {req}
    /\ pc' = "done"
    /\ UNCHANGED <<variant, users, nextId, ops, now, issued>>
    /\ \E out \in RepoUpdate(variant, users, tasks, req.r.taskId, req.patch) :
          /\ tasks' = out.tasks
          /\ last' = Written(req.r, req.patch, out)

(* ------------------------------ UserService ---------------------------- *)
\* UserService.deleteUser's existence check: TRUE iff the user is found
DeleteUserFinds(v, U, id) ==
    IF v = "typeorm" THEN UserFindById(v, U, id) ELSE id \in DOMAIN U

\* SoftDelete flipping the flag
SoftDelete_toggle(U, id) == [U EXCEPT ![id].isActive = ~U[id].isActive]

\* SoftDelete removing the row
SoftDelete_hard(U, id) == [i \in (DOMAIN U) \ {id} |-> U[i]]

\* the write of deleteUser: isActive = false
SoftDelete(U, id) == [U EXCEPT ![id].isActive = FALSE]

\* UserService.deleteUser(id), called by the controller
deleteUserService(r, id) ==
    IF ~DeleteUserFinds(variant, users, id)
    THEN Finish(NotFound(r, "User", id)) /\ users' = users
    ELSE /\ users' = SoftDelete(users, id)
         /\ Finish([r EXCEPT !.wrote = TRUE])

\* DELETE /users/:id with token tok: authenticate, authorize(ADMIN),
\* userController.deleteUser
deleteUser(id, tok) ==
    /\ Accept
    /\ UNCHANGED <<tasks, nextId, issued>>
    /\ LET req == authorize({"ADMIN"},
                     createAuthMiddleware(UserRoutesUseFinder, variant, users, tok, now))
           r == [Resp("deleteUser", req.userId, req.role, 0) EXCEPT
                    !.targetId = id,
                    !.beforeUser = IF id \in DOMAIN users THEN users[id] ELSE NoUser]
       IN  IF req.error # "none"
           THEN Finish([r EXCEPT !.error = req.error, !.errMsg = req.msg])
                /\ users' = users
           ELSE deleteUserService(r, id)

\* UserService.updateUserRole's existence check: TRUE iff the user is found
UpdateRoleFinds(v, U, id) ==
    IF v = "typeorm" THEN UserFindById(v, U, id) ELSE id \in DOMAIN U

\* PATCH /users/:id/role with token tok: authenticate, authorize(ADMIN),
\* userController.updateUserRole -> UserService.updateUserRole(id, role)
updateUserRole(id, role, tok) ==
    /\ Accept
    /\ UNCHANGED <<tasks, nextId, issued>>
    /\ LET req == authorize({"ADMIN"},
                     createAuthMiddleware(UserRoutesUseFinder, variant, users, tok, now))
           r == [Resp("updateUserRole", req.userId, req.role, 0) EXCEPT
                    !.targetId = id, !.value = role, !.token = tok,
                    !.beforeUser = IF id \in DOMAIN users THEN users[id] ELSE NoUser]
       IN  IF req.error # "none"
           THEN Finish([r EXCEPT !.error = req.error, !.errMsg = req.msg])
                /\ users' = users
           ELSE IF ~UpdateRoleFinds(variant, users, id)
           THEN Finish(NotFound(r, "User", id)) /\ users' = users
           ELSE /\ users' = [users EXCEPT ![id].role = role]
                /\ Finish([r EXCEPT !.wrote = TRUE])

\* UserService.updateUserStatus's existence check: TRUE iff the user is found
UpdateStatusFinds(v, U, id) ==
    IF v = "typeorm" THEN UserFindById(v, U, id) ELSE id \in DOMAIN U

\* UserService.updateUserStatus(id, isActive), as the controller calls it
updateUserStatus(id, isActive) ==
    /\ Accept
    /\ UNCHANGED <<tasks, nextId, issued>>
    /\ LET r == [Resp("updateUserStatus", 0, NoRole, 0) EXCEPT
                    !.targetId = id, !.flag = isActive,
                    !.beforeUser = IF id \in DOMAIN users THEN users[id] ELSE NoUser]
       IN  IF ~UpdateStatusFinds(variant, users, id)
           THEN Finish(NotFound(r, "User", id)) /\ users' = users
           ELSE /\ users' = [users EXCEPT ![id].isActive = isActive]
                /\ Finish([r EXCEPT !.wrote = TRUE])

\* UserService.getUserById's lookup: TRUE iff a row is returned
GetUserByIdFinds(v, U, id) ==
    /\ id \in DOMAIN U
    /\ (v \in {"drizzle", "typeorm"} => U[id].isActive)

\* UserService.getUserById(id)
getUserById(id) ==
    /\ Accept
    /\ UNCHANGED <<tasks, nextId, users, issued>>
    /\ LET r == [Resp("getUserById", 0, NoRole, 0) EXCEPT
                    !.targetId = id,
                    !.beforeUser = IF id \in DOMAIN users THEN users[id] ELSE NoUser]
       IN  IF ~GetUserByIdFinds(variant, users, id)
           THEN Finish(NotFound(r, "User", id))
           ELSE Finish([r EXCEPT !.userId = id])

\* the ids of the rows UserService.getAllUsers returns
ActiveUsers(U) == {i \in DOMAIN U : U[i].isActive}

\* UserService.getAllUsers()
getAllUsers ==
    /\ Accept
    /\ UNCHANGED <<tasks, nextId, users, issued>>
    /\ Finish([Resp("getAllUsers", 0, NoRole, 0) EXCEPT !.list = ActiveUsers(users)])

(* ------------------------------ AuthService ---------------------------- *)
\* no tokens returned
NoTokens == [token |-> [form |-> "none"]]
\* an entry of `issued`: the token and the user record it was made from
Issue(tok, user) == [token |-> tok, user |-> user]

\* the pair generateToken / generateRefreshToken make for user at time t
TokenPair(user, t) ==
    [token |-> generateToken(user, t), refreshToken |-> generateRefreshToken(user, t)]

\* userRepository.findByEmail of login: TRUE iff a row is returned
LoginFinds(v, U, id) == UserFindById(v, U, id)

\* AuthService.login for the email of user id; pwOk: bcrypt.compare's result
login(id, pwOk) ==
    /\ Accept
    /\ UNCHANGED <<tasks, nextId, users>>
    /\ LET r == [Resp("login", 0, NoRole, 0) EXCEPT !.targetId = id]
           denied == [r EXCEPT !.error = "UnauthorizedException",
                               !.errMsg = "Invalid email or password"]
       IN  IF ~LoginFinds(variant, users, id) \/ ~pwOk
           THEN Finish(denied) /\ issued' = issued
           ELSE LET user == UserRow(users, id)
                    pair == TokenPair(user, now)
                IN  /\ issued' = issued \cup {Issue(pair.token, user),
                                               Issue(pair.refreshToken, user)}
                    /\ Finish([r EXCEPT !.userId = id, !.userRole = user.role,
                                        !.tokens = pair])

\* RefreshFinds with the null check left out
RefreshFinds_always(v, U, id) == TRUE

\* userRepository.findById of refreshToken: TRUE iff a row is returned
RefreshFinds(v, U, id) == UserFindById(v, U, id)

\* RefreshSubject copying the old token's claims
RefreshSubject_fromToken(U, claims) ==
    [id |-> claims.userId, email |-> claims.email, role |-> claims.role,
     isActive |-> TRUE]

\* the user record refreshToken makes the new tokens from
RefreshSubject(U, claims) ==
    IF claims.userId \in DOMAIN U THEN UserRow(U, claims.userId)
    ELSE RefreshSubject_fromToken(U, claims)

\* AuthService.refreshToken(tok)
refreshToken(tok) ==
    /\ Accept
    /\ UNCHANGED <<tasks, nextId, users>>
    /\ LET dec == verifyToken(tok, now)
           r == [Resp("refreshToken", 0, NoRole, 0) EXCEPT
                    !.token = tok, !.claims = dec.payload]
           denied == [r EXCEPT !.error = "UnauthorizedException",
                               !.errMsg = "Invalid refresh token"]
       IN  IF dec.error # "none" THEN Finish(denied) /\ issued' = issued
           ELSE IF ~RefreshFinds(variant, users, dec.payload.userId)
           THEN Finish(denied) /\ issued' = issued
           ELSE LET user == RefreshSubject(users, dec.payload)
                    pair == TokenPair(user, now)
                IN  /\ issued' = issued \cup {Issue(pair.token, user),
                                               Issue(pair.refreshToken, user)}
                    /\ Finish([r EXCEPT !.userId = user.id, !.userRole = user.role,
                                        !.tokens = pair])

\* AuthService.verifyToken(tok)
verifyTokenCall(tok) ==
    /\ Accept
    /\ UNCHANGED <<tasks, nextId, users, issued>>
    /\ LET dec == verifyToken(tok, now)
           r == [Resp("verifyToken", 0, NoRole, 0) EXCEPT
                    !.token = tok, !.claims = dec.payload]
       IN  Finish([r EXCEPT !.error = dec.error, !.errMsg = dec.msg])

\* a request with token tok to a route mounted behind authenticate (built
\* with a finder iff useFinder) and authorize(...roles)
protectedRoute(tok, useFinder, roles) ==
    /\ Accept
    /\ UNCHANGED <<tasks, nextId, users, issued>>
    /\ LET req == authorize(roles,
                     createAuthMiddleware(useFinder, variant, users, tok, now))
           r == [Resp("protectedRoute", req.userId, req.role, 0) EXCEPT
                    !.token = tok, !.roles = roles, !.wrote = useFinder]
       IN  Finish([r EXCEPT !.error = req.error, !.errMsg = req.msg])

\* authorize(...roles) run on a request whose req.role is `role`
authorizeCall(roles, role) ==
    /\ Accept
    /\ UNCHANGED <<tasks, nextId, users, issued>>
    /\ LET req == authorize(roles, Req("none", "", 0, role))
           r == [Resp("authorize", 0, role, 0) EXCEPT !.roles = roles]
       IN  Finish([r EXCEPT !.error = req.error, !.errMsg = req.msg])

\* LogoutRevokes dropping the tokens of the user who logs out
LogoutRevokes_own(uid, e) == e.user.id = uid

\* TRUE iff logout(uid) makes the handed-out token e unusable
LogoutRevokes(uid, e) == FALSE

\* AuthService.logout(userId)
logout(uid) ==
    /\ Accept
    /\ UNCHANGED <<tasks, nextId, users>>
    /\ issued' = {e \in issued : ~LogoutRevokes(uid, e)}
    /\ Finish(Resp("logout", uid, NoRole, 0))

\* userRepository.findByEmail of register: TRUE iff a row is returned
RegisterFinds(v, U, email) ==
    \E i \in DOMAIN U : U[i].email = email /\ (v = "typeorm" => U[i].isActive)

\* userData.role || UserRole.USER
RegisterRole(p) == IF "role" \in DOMAIN p THEN p.role ELSE "USER"

\* the unique constraint on users.email lets a row with this email in
EmailUnique(U, email) == \A i \in DOMAIN U : U[i].email # email

\* the id the users sequence hands out next
NextUserId(U) == Cardinality(DOMAIN U) + 1

\* userRepository.create: the table with the new row
InsertUser(U, row) ==
    [i \in (DOMAIN U) \cup {NextUserId(U)} |-> IF i \in DOMAIN U THEN U[i] ELSE row]

\* AuthService.register(userData) up to the await of bcrypt.hash: the email
\* check; p holds the role of the payload, if it has one
register(email, p) ==
    /\ Accept
    /\ Cardinality(inflight) < MaxInflight
    /\ UNCHANGED <<tasks, nextId, users, issued>>
    /\ LET r == [Resp("register", 0, NoRole, 0) EXCEPT !.value = email, !.payload = p]
       IN  IF RegisterFinds(variant, users, email)
           THEN Finish([r EXCEPT !.error = "BadRequestException",
                                 !.errMsg = "User with this email already exists"])
           ELSE /\ inflight' = inflight \cup {[n |-> ops, r |-> r, patch |-> p]}
                /\ ops' = ops + 1
                /\ UNCHANGED <<variant, now, pc, last>>

\* AuthService.register from userRepository.create on: the insert and the
\* two tokens
registerInsert(req) ==
    /\ pc = "idle"
    /\ req \in inflight
    /\ req.r.op = "register"
    /\ inflight' = inflight \ {req}
    /\ pc' = "done"
    /\ UNCHANGED <<variant, tasks, nextId, ops, now>>
    /\ IF ~EmailUnique(users, req.r.value)
       THEN /\ last' = [req.r EXCEPT !.error = "Error", !.wrote = TRUE]
            /\ UNCHANGED <<users, issued>>
       ELSE LET id == NextUserId(users)
                row == [role |-> RegisterRole(req.patch), isActive |-> TRUE,
                        email |-> req.r.value]
                U2 == InsertUser(users, row)
                user == UserRow(U2, id)
                pair == TokenPair(user, now)
            IN  /\ users' = U2
                /\ issued' = issued \cup {Issue(pair.token, user),
                                           Issue(pair.refreshToken, user)}
                /\ last' = [req.r EXCEPT !.targetId = id, !.userId = id,
                                         !.userRole = user.role, !.tokens = pair,
                                         !.wrote = TRUE]

\* time passes, up to the instant t at which a token handed out expires
Tick(t) ==
    /\ pc = "idle"
    /\ now < t /\ t <= MaxTime
    /\ now' = t
    /\ UNCHANGED <<variant, users, tasks, nextId, ops, pc, last, issued, inflight>>

(* ---------------------------- specification ---------------------------- *)
UserIds == DOMAIN users
\* ids a user route may name: the users and one id with no row
TargetIds == 1..GhostUser

\* the access token a client got when user u logged in at time 0
SessionToken(u) == generateToken(UserRow(users, u), 0)

\* the users whose requests pass the `authenticate` of the task router
TaskActors ==
    {u \in UserIds :
        createAuthMiddleware(TaskRoutesUseFinder, variant, users,
                             SessionToken(u), now).error = "none"}

\* the role a request carries is the one in its token, issued from the
\* user's row
RoleOf(u) == users[u].role

Next ==
    \/ \E u \in TaskActors, p \in CreatePayloads : createTask(u, RoleOf(u), p)
    \/ \E u \in TaskActors, t \in TaskIds : getTaskById(t, u, RoleOf(u))
    \/ \E u \in TaskActors : getTasksByUser(u, RoleOf(u))
    \/ \E u \in TaskActors, t \in TaskIds, p \in UpdatePayloads :
           updateTask(t, p, u, RoleOf(u))
    \/ \E u \in TaskActors, t \in TaskIds : deleteTask(t, u, RoleOf(u))
    \/ \E u \in TaskActors, t \in TaskIds, a \in AssigneeIds :
           assignTask(t, a, u, RoleOf(u))
    \/ \E u \in TaskActors, t \in TaskIds, s \in StatusInputs :
           updateTaskStatus(t, s, u, RoleOf(u))
    \/ \E u \in TaskActors, t \in TaskIds, d \in DueDateInputs :
           updateTaskDueDate(t, d, u, RoleOf(u))
    \/ \E u \in TaskActors, t \in TaskIds, q \in PriorityInputs :
           updateTaskPriority(t, q, u, RoleOf(u))
    \/ \E u \in UserIds, id \in TargetIds : deleteUser(id, SessionToken(u))
    \/ Respond

Spec == Init /\ [][Next]_vars

\* the apps whose AuthService and UserService are modelled
AuthVariants == {"drizzle", "typeorm", "prisma"}
\* a token for the ADMIN signed with a key that is not the server's
ForgedToken ==
    Sign([userId |-> 1, email |-> SeedEmails[1], role |-> "ADMIN"],
         OtherSecret, AccessTtl, 0)
\* what a client may send as a token
TokenInputs == {e.token : e \in issued} \cup {EmptyToken, MalformedToken, ForgedToken}
\* the role lists the routers pass to authorize
RouteRoles == {{"ADMIN"}, {"ADMIN", "MANAGER"}}
\* the emails and the roles a registration payload may carry
RegisterEmails == {SeedEmails[3], "new@example.com"}
RegisterPayloads == {EmptyPatch, [role |-> "ADMIN"]}
\* the instants at which a token handed out expires
Expiries == {e.token.exp : e \in issued}

AuthInit ==
    /\ variant \in AuthVariants
    /\ users = [i \in 1..Len(SeedRoles) |->
                    [role |-> SeedRoles[i], isActive |-> TRUE, email |-> SeedEmails[i]]]
    /\ tasks = [i \in TaskIds |-> NoTask]
    /\ nextId = 1
    /\ ops = 0
    /\ pc = "idle"
    /\ last = Resp("none", 0, "", 0)
    /\ now = 0
    /\ issued = {}
    /\ inflight = {}

AuthNext ==
    \/ \E id \in TargetIds, pwOk \in BOOLEAN : login(id, pwOk)
    \/ \E tok \in TokenInputs : refreshToken(tok)
    \/ \E tok \in TokenInputs : verifyTokenCall(tok)
    \/ \E tok \in TokenInputs, f \in BOOLEAN, roles \in RouteRoles :
           protectedRoute(tok, f, roles)
    \/ \E roles \in RouteRoles, role \in Roles \cup {NoRole} :
           authorizeCall(roles, role)
    \/ \E tok \in TokenInputs, id \in TargetIds, role \in Roles :
           updateUserRole(id, role, tok)
    \/ \E tok \in TokenInputs, id \in TargetIds : deleteUser(id, tok)
    \/ \E id \in TargetIds : logout(id)
    \/ \E t \in Expiries : Tick(t)
    \/ Respond

AuthSpec == AuthInit /\ [][AuthNext]_vars

\* the task routes, with the checks and the write of the methods of
\* TaskWriteOps as separate steps
\* the request bodies of RaceSpec: a task created for the seeded USER, a
\* new title, the seeded MANAGER as the new assignee, one status and one
\* priority
RaceCreatePayloads == {[title |-> "T1", assignedToId |-> 3]}
RaceUpdatePayloads == {[title |-> "T2"]}
RaceAssignees == {2}
RaceStatusInputs == {"COMPLETED"}
RacePriorityInputs == {"URGENT"}

RaceNext ==
    \/ \E u \in TaskActors, p \in RaceCreatePayloads : createTask(u, RoleOf(u), p)
    \/ \E u \in TaskActors, t \in TaskIds : deleteTask(t, u, RoleOf(u))
    \/ \E u \in TaskActors, t \in TaskIds, p \in RaceUpdatePayloads :
           taskChecks("updateTask", t, p, u, RoleOf(u))
    \/ \E u \in TaskActors, t \in TaskIds, a \in RaceAssignees :
           taskChecks("assignTask", t, a, u, RoleOf(u))
    \/ \E u \in TaskActors, t \in TaskIds, s \in RaceStatusInputs :
           taskChecks("updateTaskStatus", t, s, u, RoleOf(u))
    \/ \E u \in TaskActors, t \in TaskIds, q \in RacePriorityInputs :
           taskChecks("updateTaskPriority", t, q, u, RoleOf(u))
    \/ \E u \in TaskActors, t \in TaskIds, d \in DueDateInputs :
           taskChecks("updateTaskDueDate", t, d, u, RoleOf(u))
    \/ \E req \in inflight : taskWrite(req)
    \/ Respond

RaceSpec == Init /\ [][RaceNext]_vars

\* the user routes and the public registration, with the registration's
\* email check and insert as separate steps
UserNext ==
    \/ \E email \in RegisterEmails, p \in RegisterPayloads : register(email, p)
    \/ \E req \in inflight : registerInsert(req)
    \/ \E id \in TargetIds, b \in BOOLEAN : updateUserStatus(id, b)
    \/ \E id \in TargetIds : getUserById(id)
    \/ getAllUsers
    \/ \E u \in UserIds, id \in TargetIds : deleteUser(id, SessionToken(u))
    \/ Respond

UserSpec == AuthInit /\ [][UserNext]_vars

TypeOK ==
    /\ variant \in Variants
    /\ pc \in {"idle", "done"}
    /\ ops \in 0..MaxOps
    /\ nextId \in 1..(MaxTasks + 1)
    /\ \A i \in TaskIds : tasks[i] = NoTask \/ tasks[i].id = i

(* ------------------------------- claims -------------------------------- *)
\* the response of operation `op` is in `last`
Answered(op) == pc = "done" /\ last.op = op
\* the row of the targeted task after the request
Row == tasks[last.taskId]
IsCreatorOrAssignee(t, uid) == t.createdBy = uid \/ t.assignedToId = uid
DeniedUnchanged == last.error = "UnauthorizedException" /\ last.data = NoTask
                   /\ Row = last.before

\* C1: getTaskById on an existing task returns the task to an ADMIN always,
\* to a MANAGER iff they created it or are its assignee, to a USER iff they
\* are its assignee; otherwise it fails with UnauthorizedException and
\* returns no task data.
C1_ReadRule ==
    (Answered("getTaskById") /\ last.before # NoTask) =>
        LET t == last.before
            may == \/ last.userRole = "ADMIN"
                   \/ last.userRole = "MANAGER" /\ IsCreatorOrAssignee(t, last.userId)
                   \/ last.userRole = "USER" /\ t.assignedToId = last.userId
        IN  IF may THEN last.error = "none" /\ last.data = t
            ELSE last.error = "UnauthorizedException" /\ last.data = NoTask

\* a MANAGER who is only the assignee has read the task
C1_Witness ==
    /\ Answered("getTaskById") /\ last.userRole = "MANAGER"
    /\ last.before # NoTask
    /\ last.before.assignedToId = last.userId
    /\ last.before.createdBy # last.userId
    /\ last.data = last.before

\* C2: getTasksByUser returns exactly the stored tasks the role may see:
\* all for an ADMIN, those created by or assigned to the actor for a
\* MANAGER, those assigned to the actor for a USER.
C2_ListRule ==
    Answered("getTasksByUser") =>
        LET stored == {tasks[i] : i \in {j \in TaskIds : tasks[j] # NoTask}}
            visible ==
                IF last.userRole = "ADMIN" THEN stored
                ELSE IF last.userRole = "MANAGER"
                THEN {t \in stored : IsCreatorOrAssignee(t, last.userId)}
                ELSE {t \in stored : t.assignedToId = last.userId}
        IN  last.error = "none" /\ last.list = visible

\* a MANAGER's list holds a task they created but are not assigned to, and
\* leaves out another stored task
C2_Witness ==
    /\ Answered("getTasksByUser") /\ last.userRole = "MANAGER"
    /\ \E t \in last.list : t.createdBy = last.userId /\ t.assignedToId # last.userId
    /\ \E i \in TaskIds : tasks[i] # NoTask /\ tasks[i] \notin last.list

\* C3: a general updateTask on an existing task hands the full payload to
\* the repository for an ADMIN on any task and for a MANAGER iff they
\* created the task; a MANAGER who did not create it is denied with
\* UnauthorizedException and the task is unchanged, in every variant.
C3_UpdateRule ==
    (Answered("updateTask") /\ last.before # NoTask
        /\ last.userRole \in {"ADMIN", "MANAGER"}) =>
        IF last.userRole = "ADMIN" \/ last.before.createdBy = last.userId
        THEN last.wrote /\ last.patch = last.payload
        ELSE DeniedUnchanged

\* C4: a USER updating a task assigned to them with a payload that holds
\* status and other fields succeeds, and only status and completedAt are
\* written: every other field keeps its value, in every variant.
C4_UserAllowList ==
    (Answered("updateTask") /\ last.before # NoTask
        /\ last.userRole = "USER" /\ last.before.assignedToId = last.userId
        /\ "status" \in DOMAIN last.payload) =>
        /\ last.error = "none"
        /\ Row.status = last.payload.status
        /\ \A f \in (DOMAIN last.before) \ {"status", "completedAt"} :
               Row[f] = last.before[f]

\* C5: updateTaskStatus on an existing task is allowed for an ADMIN always,
\* for a MANAGER iff creator or assignee, for a USER iff assignee; anyone
\* else is denied with UnauthorizedException and the status is unchanged,
\* in every variant.
C5_StatusRule ==
    (Answered("updateTaskStatus") /\ last.before # NoTask) =>
        LET t == last.before
            may == \/ last.userRole = "ADMIN"
                   \/ last.userRole = "MANAGER" /\ IsCreatorOrAssignee(t, last.userId)
                   \/ last.userRole = "USER" /\ t.assignedToId = last.userId
        IN  IF may THEN last.error = "none" /\ Row.status = last.value
            ELSE DeniedUnchanged

\* C6: deleteTask on an existing task removes it only for an ADMIN; for a
\* MANAGER or USER, whatever the task's createdBy and assignedToId, it
\* fails with UnauthorizedException and the task is still stored with all
\* fields unchanged.
C6_DeleteRule ==
    (Answered("deleteTask") /\ last.before # NoTask) =>
        IF last.userRole = "ADMIN"
        THEN last.error = "none" /\ Row = NoTask
        ELSE last.error = "UnauthorizedException" /\ Row = last.before

\* a MANAGER was refused the deletion of a task they created and hold
C6_Witness ==
    /\ Answered("deleteTask") /\ last.userRole = "MANAGER"
    /\ last.before # NoTask
    /\ last.before.createdBy = last.userId
    /\ last.before.assignedToId = last.userId
    /\ last.error = "UnauthorizedException"
    /\ Row = last.before

\* C7: assignTask on an existing task checks the role gate, then the
\* assignee, then writes: a USER gets UnauthorizedException even for an
\* assignee that does not exist; an ADMIN or MANAGER naming an assignee
\* whose lookup returns null gets the NotFoundException that names that
\* assigneeId; in both cases the task is unchanged.
C7_AssignOrder ==
    (Answered("assignTask") /\ last.before # NoTask) =>
        IF last.userRole \notin {"ADMIN", "MANAGER"}
        THEN DeniedUnchanged
        ELSE IF ~UserFindById(variant, users, last.assigneeId)
        THEN /\ last.error = "NotFoundException"
             /\ last.errEntity = "User" /\ last.errId = last.assigneeId
             /\ Row = last.before
        ELSE last.wrote /\ last.patch = [assignedToId |-> last.assigneeId]

\* a USER asked to assign a task to a user that does not exist, and was
\* refused on the role gate
C7_Witness ==
    /\ Answered("assignTask") /\ last.userRole = "USER"
    /\ last.before # NoTask
    /\ last.assigneeId \notin DOMAIN users
    /\ last.error = "UnauthorizedException"
    /\ Row = last.before

\* the operations that target a task id
TaskIdOps == {"getTaskById", "updateTask", "deleteTask", "assignTask",
              "updateTaskStatus", "updateTaskPriority", "updateTaskDueDate"}

\* C8: every operation that targets a task id, for every role, fails with
\* NotFoundException when no task has that id: existence is checked before
\* any role or ownership check.
C8_ExistenceFirst ==
    (pc = "done" /\ last.op \in TaskIdOps /\ last.before = NoTask) =>
        /\ last.error = "NotFoundException"
        /\ last.errEntity = "Task" /\ last.errId = last.taskId

\* the fields of `last` about a createTask request handled by this step
Created(uid, role, p) ==
    /\ pc' = "done" /\ last'.op = "createTask"
    /\ last'.userId = uid /\ last'.userRole = role /\ last'.payload = p

C10_PriorityDueDateRule ==
    (pc = "done" /\ last.op \in {"updateTaskPriority", "updateTaskDueDate"}
        /\ last.before # NoTask) =>
        IF last.userRole = "USER" THEN DeniedUnchanged
        ELSE last.wrote /\ last.error # "UnauthorizedException"

\* a USER was refused a priority change on a task assigned to them
C10_Witness ==
    /\ Answered("updateTaskPriority") /\ last.userRole = "USER"
    /\ last.before # NoTask
    /\ last.before.assignedToId = last.userId
    /\ last.error = "UnauthorizedException"
    /\ Row = last.before

\* C11: in every reachable state, every stored task's assignedToId and
\* createdBy are ids of rows of the users table; no createTask or updateTask
\* whose payload names a user that does not exist leaves a task pointing at
\* that id.
C11_RefsExist ==
    \A i \in TaskIds :
        tasks[i] # NoTask =>
            /\ tasks[i].assignedToId \in DOMAIN users
            /\ tasks[i].createdBy \in DOMAIN users

\* an updateTask whose payload names a user with no row reached the
\* repository and left the task as it was, assigned to a soft-deleted user
C11_Witness ==
    /\ Answered("updateTask") /\ last.wrote
    /\ "assignedToId" \in DOMAIN last.patch
    /\ last.patch.assignedToId \notin DOMAIN users
    /\ last.error = "Error"
    /\ Row = last.before
    /\ ~users[Row.assignedToId].isActive

\* tok was handed out by the server and has not expired
Genuine(tok) == (\E e \in issued : e.token = tok) /\ now < tok.exp
\* tok was made by generateRefreshToken
IsRefresh(tok) == tok.exp = tok.iat + RefreshTtl

\* C12: every token made by generateToken or generateRefreshToken for a
\* user verifies, until it expires, to claims with that user's id, email
\* and role as they were when the token was made.
C12_RoundTrip ==
    \A e \in issued :
        now < e.token.exp =>
            LET c == verifyToken(e.token, now)
            IN  /\ c.error = "none"
                /\ c.payload.userId = e.user.id
                /\ c.payload.email = e.user.email
                /\ c.payload.role = e.user.role

\* a refresh token was verified after its user's role changed and gave the
\* role of the time it was made
C12_Witness ==
    /\ Answered("verifyToken") /\ last.error = "none"
    /\ IsRefresh(last.token)
    /\ \E e \in issued :
          /\ e.token = last.token
          /\ last.claims.userId = e.user.id
          /\ last.claims.role = e.user.role
          /\ users[e.user.id].role # e.user.role

\* C13: verifyToken fails with UnauthorizedException "Invalid or expired
\* token" for every token that is not a genuine unexpired one: empty,
\* malformed, signed with another secret, or expired.
C13_OneError ==
    Answered("verifyToken") =>
        IF Genuine(last.token) THEN last.error = "none"
        ELSE /\ last.error = "UnauthorizedException"
             /\ last.errMsg = "Invalid or expired token"
             /\ last.claims = NoPayload

\* a token the server made was verified after its expiry and got the same
\* error as a token signed with another secret gets
C13_Witness ==
    /\ Answered("verifyToken")
    /\ \E e \in issued : e.token = last.token
    /\ now >= last.token.exp
    /\ last.error = verifyToken(ForgedToken, 0).error
    /\ last.errMsg = verifyToken(ForgedToken, 0).msg
    /\ last.error = "UnauthorizedException"

\* C14: refreshToken with a genuine unexpired refresh token whose userId
\* the lookup does not find fails with UnauthorizedException and issues no
\* token.
C14_RefreshDeletedUser ==
    [][(/\ pc' = "done" /\ last'.op = "refreshToken"
        /\ Genuine(last'.token) /\ IsRefresh(last'.token)
        /\ ~UserFindById(variant, users, last'.token.userId)) =>
           /\ last'.error = "UnauthorizedException"
           /\ last'.tokens = NoTokens
           /\ issued' = issued
      ]_vars

\* a soft-deleted user's refresh token, still unexpired, was refused
C14_Witness ==
    /\ Answered("refreshToken")
    /\ Genuine(last.token) /\ IsRefresh(last.token)
    /\ ~UserFindById(variant, users, last.token.userId)
    /\ last.error = "UnauthorizedException"
    /\ last.tokens = NoTokens

\* C15: a successful refreshToken returns tokens whose role is the one in
\* the user's row now, not the old token's; and a genuine unexpired token
\* of an active user passes authenticate / authorize with the role it was
\* made with, whatever the row says now.
C15_RoleOnRefresh ==
    /\ (Answered("refreshToken") /\ last.error = "none") =>
          /\ last.tokens.token.role = users[last.token.userId].role
          /\ last.tokens.refreshToken.role = users[last.token.userId].role
    /\ (Answered("protectedRoute") /\ Genuine(last.token)
            /\ users[last.token.userId].isActive) =>
          /\ last.userRole = last.token.role
          /\ (last.error = "none" <=> last.token.role \in last.roles)

\* a refresh made after a role change returned tokens with the new role
C15_Witness ==
    /\ Answered("refreshToken") /\ last.error = "none"
    /\ last.tokens.token.role # last.token.role
    /\ last.tokens.token.role = users[last.token.userId].role

\* C16: once a user is soft-deleted or deactivated, every later request
\* that carries their unexpired token to a protected route is rejected
\* with UnauthorizedException and changes nothing.
C16_InactiveRejected ==
    [][(pc' = "done" /\ last'.userId \in DOMAIN users
            /\ ~users[last'.userId].isActive) =>
           /\ last'.error = "UnauthorizedException"
           /\ tasks' = tasks /\ users' = users
      ]_vars

\* no middleware rejected the request (a middleware's error has a message,
\* a service's has none here)
PassedMiddleware(r) == r.errMsg = ""

\* C17: authorize(...roles) calls next() with no error iff req.role is set
\* and is one of roles; otherwise it fails with UnauthorizedException,
\* "Access denied" for a missing role and "Insufficient permissions" for a
\* role not in roles.
C17_Authorize ==
    Answered("authorize") =>
        IF last.userRole # NoRole /\ last.userRole \in last.roles
        THEN last.error = "none"
        ELSE /\ last.error = "UnauthorizedException"
             /\ last.errMsg = IF last.userRole = NoRole THEN "Access denied"
                               ELSE "Insufficient permissions"

\* a MANAGER was refused by authorize(ADMIN)
C17_Witness ==
    /\ Answered("authorize")
    /\ last.userRole = "MANAGER" /\ last.roles = {"ADMIN"}
    /\ last.error = "UnauthorizedException"
    /\ last.errMsg = "Insufficient permissions"

RepeatedDelete ==
    /\ pc' = "done" /\ PassedMiddleware(last')
    /\ \/ /\ last'.op = "deleteUser"
          /\ last'.beforeUser # NoUser /\ ~last'.beforeUser.isActive
       \/ /\ last'.op = "deleteTask" /\ last'.userRole = "ADMIN"
          /\ last'.before = NoTask /\ last'.taskId < nextId

\* C19 as stated: a repeated deleteUser(id) or ADMIN deleteTask(id) leaves
\* the stores as the first call left them and does not fail.
C19_IdempotentAsStated ==
    [][RepeatedDelete =>
          /\ users' = users /\ tasks' = tasks /\ nextId' = nextId
          /\ last'.error = "none"
      ]_vars

\* C19 amended: the repeated call leaves the stores as the first call left
\* them; a repeated deleteTask fails with NotFoundException, and so does a
\* repeated deleteUser where the service's lookup skips inactive users
\* (typeorm); elsewhere the repeated deleteUser succeeds.
C19_Idempotent ==
    [][RepeatedDelete =>
          /\ users' = users /\ tasks' = tasks /\ nextId' = nextId
          /\ last'.error =
                IF last'.op = "deleteTask" \/ variant = "typeorm"
                THEN "NotFoundException" ELSE "none"
      ]_vars

\* a deleteUser was repeated on a user already soft-deleted and succeeded
C19_Witness ==
    /\ Answered("deleteUser") /\ PassedMiddleware(last)
    /\ last.beforeUser # NoUser /\ ~last.beforeUser.isActive
    /\ last.error = "none"
    /\ users[last.targetId] = last.beforeUser

\* C20: the error an authenticated actor gets for lacking the privilege to
\* delete a task is of another kind, with another status, than the error
\* of a missing, invalid or expired token.
C20_DistinctKinds ==
    (Answered("deleteTask") /\ last.before # NoTask /\ last.userRole # "ADMIN") =>
        LET tokenError == verifyToken(MalformedToken, now).error
        IN  /\ last.error # "none"
            /\ last.error # tokenError
            /\ StatusCode(last.error) # StatusCode(tokenError)

\* C21: logout changes no state: every token handed out before the call is
\* still held after it, verifies as before, and is treated by the
\* middleware and by the user lookup of refreshToken as before.
C21_LogoutNoOp ==
    [][(pc' = "done" /\ last'.op = "logout") =>
          /\ users' = users /\ tasks' = tasks /\ now' = now
          /\ \A e \in issued :
                /\ e \in issued'
                /\ verifyToken(e.token, now') = verifyToken(e.token, now)
                /\ \A f \in BOOLEAN :
                      createAuthMiddleware(f, variant', users', e.token, now')
                        = createAuthMiddleware(f, variant, users, e.token, now)
                /\ RefreshFinds(variant', users', e.token.userId)
                        = RefreshFinds(variant, users, e.token.userId)
      ]_vars

\* a user with an unexpired refresh token logged out, and the token still
\* verifies and passes the middleware
C21_Witness ==
    /\ Answered("logout")
    /\ \E e \in issued :
          /\ e.user.id = last.userId /\ IsRefresh(e.token)
          /\ verifyToken(e.token, now).error = "none"
          /\ createAuthMiddleware(TRUE, variant, users, e.token, now).error = "none"
          /\ RefreshFinds(variant, users, e.token.userId)

\* C22: updateUserStatus(id, b) succeeds for every stored user, active or
\* not, and leaves the row with isActive = b.
C22_StatusBothWays ==
    (Answered("updateUserStatus") /\ last.beforeUser # NoUser) =>
        /\ last.error = "none"
        /\ users[last.targetId].isActive = last.flag

\* C23: no two rows of users share an email, and a register whose email a
\* stored row (other than the one it made) holds has failed with
\* BadRequestException and returned no token.
C23_UniqueEmail ==
    /\ \A i, j \in DOMAIN users : users[i].email = users[j].email => i = j
    /\ (/\ Answered("register")
        /\ \E i \in DOMAIN users : i # last.targetId /\ users[i].email = last.value)
          => /\ last.error = "BadRequestException"
             /\ last.tokens = NoTokens

\* C24: a successful updateTaskDueDate(id, d) leaves the row with dueDate d,
\* a successful updateTaskPriority(id, p) with priority p, and every other
\* field as it was.
C24_StoredValue ==
    /\ (Answered("updateTaskDueDate") /\ last.error = "none") =>
          /\ "dueDate" \in DOMAIN Row
          /\ Row.dueDate = last.value
          /\ \A f \in DOMAIN last.before : Row[f] = last.before[f]
    /\ (Answered("updateTaskPriority") /\ last.error = "none") =>
          Row = [last.before EXCEPT !.priority = last.value]

\* C25: getUserById of a stored user whose isActive is false fails with
\* NotFoundException, and getAllUsers returns exactly the users whose
\* isActive is true.
C25_InactiveHidden ==
    /\ (Answered("getUserById") /\ last.beforeUser # NoUser
        /\ ~last.beforeUser.isActive) => last.error = "NotFoundException"
    /\ Answered("getAllUsers") =>
          last.list = {i \in DOMAIN users : users[i].isActive}

\* C26: a user made by register has role USER, and so have the two tokens
\* register returns, whatever the payload holds.
C26_RegisterRole ==
    (Answered("register") /\ last.error = "none") =>
        /\ users[last.targetId].role = "USER"
        /\ last.tokens.token.role = "USER"
        /\ last.tokens.refreshToken.role = "USER"

\* C27: login with the right password, and refreshToken with a token that
\* verifies, fail with UnauthorizedException and return no token when the
\* user's isActive is false.
C27_NoTokenForInactive ==
    /\ (/\ Answered("login")
        /\ last.targetId \in DOMAIN users
        /\ ~users[last.targetId].isActive) =>
          last.error = "UnauthorizedException" /\ last.tokens = NoTokens
    /\ (/\ Answered("refreshToken")
        /\ last.claims.userId \in DOMAIN users
        /\ ~users[last.claims.userId].isActive) =>
          last.error = "UnauthorizedException" /\ last.tokens = NoTokens

\* C28: refreshToken rejects a token made by generateToken, and the
\* authentication middleware rejects a token made by generateRefreshToken.
C28_TokenPurpose ==
    /\ (/\ Answered("refreshToken")
        /\ last.token.form = "jwt" /\ ~IsRefresh(last.token)) =>
          last.error = "UnauthorizedException"
    /\ (/\ Answered("protectedRoute")
        /\ last.token.form = "jwt" /\ IsRefresh(last.token)) =>
          last.error # "none"

\* C29: a request of TaskWriteOps whose lookup found the task and whose
\* repository update found it deleted fails with NotFoundException, and the
\* task stays deleted.
C29_LostRace ==
    (/\ pc = "done" /\ last.op \in TaskWriteOps
     /\ last.wrote /\ last.before # NoTask /\ Row = NoTask) =>
        last.error = "NotFoundException"

\* C30: a status write made for a USER lands on a task assigned to that
\* USER when it is written.
C30_OwnTaskWritten ==
    (/\ Answered("updateTaskStatus") /\ last.userRole = "USER"
     /\ last.wrote /\ last.error = "none") =>
        Row.assignedToId = last.userId

====
